---------------------------- MODULE Spec2Model ----------------------------
(***************************************************************************)
(* State-machine model of two yata indicators:                             *)
(*   src/src/indicators/average_directional_index.rs  (ADX)                *)
(*   src/src/indicators/coppock_curve.rs              (CoppockCurve)       *)
(*                                                                         *)
(* ValueType is f64.  A value is a record [c, s, m, e]: c is "fin", "inf"  *)
(* or "nan", s is the sign bit, and a finite value is m * 2^e with m a     *)
(* natural number that is odd or zero (zero has e = 0).  m is held as a    *)
(* sequence of 14-bit limbs, least significant first, without leading      *)
(* zero limbs, because a 53-bit significand does not fit a 32-bit TLC      *)
(* integer.  Every operation rounds its exact result to the                *)
(* nearest value with a significand of at most 53 bits, ties to even,      *)
(* with gradual underflow below 2^-1022 and overflow to infinity, as       *)
(* IEEE-754 binary64 does.                                                 *)
(*                                                                         *)
(* Strings handed to set() are sequences of one-character strings so that  *)
(* parsing is computed character by character.                             *)
(***************************************************************************)
EXTENDS Integers, Sequences, FiniteSets, TLC

(***************************************************************************)
(* Bounds of the model.                                                    *)
(***************************************************************************)
\* number of next(bar) calls explored after init
MaxNext == 2
\* number of next(bar) calls explored when following the reference window
MaxDeep == 4
\* number of next(bar) calls explored when every bar rises above the last
MaxRise == 3
\* number of set(name, value) calls explored on one configuration
MaxSets == 2

\* smoothing length of the shortened configurations bound to an instance
MaxPeriod == 3

\* prices a bar may take
Prices == 1 .. 2

(***************************************************************************)
(* Natural numbers of any size: sequences of limbs below Base, least       *)
(* significant limb first, no leading zero limb (zero is <<>>).            *)
(***************************************************************************)
Base == 2^14

IMax(i, j) == IF i < j THEN j ELSE i

IMin(i, j) == IF i < j THEN i ELSE j

Limb(a, i) == IF i <= Len(a) THEN a[i] ELSE 0

\* a without its leading zero limbs
BTrim(a) ==
    IF Len(a) = 0 THEN <<>>
    ELSE IF a[Len(a)] # 0 THEN a
    ELSE IF \A i \in 1 .. Len(a) : a[i] = 0 THEN <<>>
    ELSE SubSeq(a, 1, CHOOSE i \in 1 .. Len(a) :
                          a[i] # 0 /\ \A j \in i + 1 .. Len(a) : a[j] = 0)

RECURSIVE CarryRange(_, _, _, _)
CarryJoin(left, right) == [d |-> left.d \o right.d, c |-> right.c]

CarryRight(s, mid, hi, left) == CarryJoin(left, CarryRange(s, mid + 1, hi, left.c))

\* the digits s[lo .. hi] (any integers) with the carry c added at s[lo]:
\* the limbs d they make and the carry c out of s[hi]
CarryRange(s, lo, hi, c) ==
    IF lo > hi THEN [d |-> <<>>, c |-> c]
    ELSE IF lo = hi THEN [d |-> <<(s[lo] + c) % Base>>, c |-> (s[lo] + c) \div Base]
    ELSE CarryRight(s, (lo + hi) \div 2, hi, CarryRange(s, lo, (lo + hi) \div 2, c))

\* the limbs r.d followed by the limbs of the carry r.c, 0 <= r.c < Base^2
CarryEnd(r) ==
    r.d \o (IF r.c = 0 THEN <<>>
            ELSE IF r.c < Base THEN <<r.c>>
            ELSE <<r.c % Base, r.c \div Base>>)

\* the number with digits s[1], s[2], .. (any integers) plus c, as limbs
BCarry(s, c) == CarryEnd(CarryRange(s, 1, Len(s), c))

BFromNat(n) == BTrim(BCarry(<<n>>, 0))

BAdd(a, b) ==
    BCarry([i \in 1 .. IMax(Len(a), Len(b)) |-> Limb(a, i) + Limb(b, i)], 0)

\* a - b, for a >= b
BSub(a, b) == BTrim(BCarry([i \in 1 .. Len(a) |-> a[i] - Limb(b, i)], 0))

\* a * k for a natural k below Base
BScale(a, k) == BTrim(BCarry([i \in 1 .. Len(a) |-> a[i] * k], 0))

RECURSIVE BMulRows(_, _, _, _)
\* b times the limbs lo .. hi of a, the limb lo counted as the units
BMulRows(a, b, lo, hi) ==
    IF lo = hi THEN BCarry([j \in 1 .. Len(b) |-> a[lo] * b[j]], 0)
    ELSE BAdd(BMulRows(a, b, lo, (lo + hi) \div 2),
              [i \in 1 .. (lo + hi) \div 2 + 1 - lo |-> 0]
              \o BMulRows(a, b, (lo + hi) \div 2 + 1, hi))

BMul(a, b) == IF Len(a) = 0 THEN <<>> ELSE BTrim(BMulRows(a, b, 1, Len(a)))

\* -1, 0 or 1 as a is below, equal to or above b
BCmp(a, b) ==
    IF Len(a) # Len(b) THEN (IF Len(a) < Len(b) THEN -1 ELSE 1)
    ELSE IF \A i \in 1 .. Len(a) : a[i] = b[i] THEN 0
    ELSE IF \E i \in 1 .. Len(a) :
               a[i] > b[i] /\ \A j \in i + 1 .. Len(a) : a[j] = b[j] THEN 1
    ELSE -1

RECURSIVE IBitLen(_)
IBitLen(n) == IF n = 0 THEN 0 ELSE 1 + IBitLen(n \div 2)

\* number of bits of a: 0 for zero
BBitLen(a) == IF Len(a) = 0 THEN 0 ELSE 14 * (Len(a) - 1) + IBitLen(a[Len(a)])

\* a * 2^k
BShl(a, k) ==
    IF Len(a) = 0 THEN <<>>
    ELSE [i \in 1 .. k \div 14 |-> 0]
         \o BCarry([i \in 1 .. Len(a) |-> a[i] * 2^(k % 14)], 0)

\* a \div 2^k
BShr(a, k) ==
    BTrim([i \in 1 .. Len(a) - k \div 14 |->
              (a[i + k \div 14] \div 2^(k % 14))
              + (Limb(a, i + k \div 14 + 1) % 2^(k % 14)) * 2^(14 - (k % 14))])

\* bit i of a, bit 0 the least significant
BBit(a, i) == (Limb(a, i \div 14 + 1) \div 2^(i % 14)) % 2

\* a % 2^k # 0
BLowBits(a, k) ==
    \/ \E i \in 1 .. IMin(Len(a), k \div 14) : a[i] # 0
    \/ Limb(a, k \div 14 + 1) % 2^(k % 14) # 0

RECURSIVE ITrailing(_)
ITrailing(n) == IF n % 2 = 1 THEN 0 ELSE 1 + ITrailing(n \div 2)

\* index of the lowest non-zero limb of a # 0
LowLimb(a) == CHOOSE i \in 1 .. Len(a) : a[i] # 0 /\ \A j \in 1 .. i - 1 : a[j] = 0

\* number of zero bits below the lowest set bit of a # 0
BTrailing(a) == 14 * (LowLimb(a) - 1) + ITrailing(a[LowLimb(a)])

RECURSIVE DivBits(_, _, _, _)
\* n more bits of the quotient r / b, for r < 2b: the bits appended to q,
\* and the remainder doubled once per bit
DivBits(r, b, n, q) ==
    IF n = 0 THEN [q |-> q, r |-> r]
    ELSE IF BCmp(r, b) >= 0
         THEN DivBits(BScale(BSub(r, b), 2), b, n - 1, 2 * q + 1)
         ELSE DivBits(BScale(r, 2), b, n - 1, 2 * q)

RECURSIVE DivLimbs(_, _, _)
DivJoin(hi, rest) == [q |-> Append(rest.q, hi), r |-> rest.r]

DivRest(d, b, n) == DivJoin(d.q, DivLimbs(d.r, b, n - 1))

\* n limbs of the quotient r / b, for r < 2b: floor(r * 2^(14n - 1) / b)
\* as q, and a remainder r that is zero exactly when the division is exact
DivLimbs(r, b, n) ==
    IF n = 0 THEN [q |-> <<>>, r |-> r]
    ELSE DivRest(DivBits(r, b, 14, 0), b, n)

(***************************************************************************)
(* ValueType arithmetic (f64).                                             *)
(***************************************************************************)
Fin(s, m, e) == [c |-> "fin", s |-> s, m |-> m, e |-> e]

Inf(s) == [c |-> "inf", s |-> s, m |-> <<>>, e |-> 0]

NaN == [c |-> "nan", s |-> 0, m |-> <<>>, e |-> 0]

\* +0.0 and -0.0
SignedZero(s) == Fin(s, <<>>, 0)

Zero == SignedZero(0)

IsNaN(x) == x.c = "nan"
IsInf(x) == x.c = "inf"
IsZero(x) == x.c = "fin" /\ Len(x.m) = 0

Strip(s, m, e, t) == Fin(s, BShr(m, t), e + t)

\* the value m * 2^e, exactly representable: its mantissa made odd; an
\* infinity if it is 2^1024 or more
Canon(s, m, e) ==
    IF Len(m) = 0 THEN SignedZero(s)
    ELSE IF BBitLen(m) + e > 1024 THEN Inf(s)
    ELSE Strip(s, m, e, BTrailing(m))

RoundUp(s, q, e, up) == Canon(s, IF up THEN BAdd(q, <<1>>) ELSE q, e)

\* m * 2^e with its k low bits rounded away: to nearest, ties to even
RoundAt(s, m, e, sticky, k) ==
    IF k <= 0 THEN Canon(s, m, e)
    ELSE RoundUp(s, BShr(m, k), e + k,
                 /\ BBit(m, k - 1) = 1
                 /\ (sticky \/ BLowBits(m, k - 1) \/ BBit(m, k) = 1))

\* the f64 nearest to m * 2^e (plus a positive amount below 2^e when
\* sticky): 53 bits of significand, fewer below 2^-1022
Round(s, m, e, sticky) ==
    RoundAt(s, m, e, sticky, IMax(BBitLen(m) - 53, -1074 - e))

\* `i as ValueType` for an integer i
FromInt(i) == Round(IF i < 0 THEN 1 ELSE 0, BFromNat(IF i < 0 THEN -i ELSE i), 0, FALSE)

One == FromInt(1)

FNeg(x) == IF IsNaN(x) THEN x ELSE [x EXCEPT !.s = 1 - x.s]

FAbs(x) == IF IsNaN(x) THEN x ELSE [x EXCEPT !.s = 0]

\* exponent of the highest set bit of a finite non-zero value, plus one
Top(x) == BBitLen(x.m) + x.e

AddSigned(sx, a, sy, b, e, cmp) ==
    IF cmp = 0 THEN Zero
    ELSE IF cmp > 0 THEN Round(sx, BSub(a, b), e, FALSE)
    ELSE Round(sy, BSub(b, a), e, FALSE)

\* a * 2^e with sign sx plus b * 2^e with sign sy
AddAligned(sx, a, sy, b, e) ==
    IF sx = sy THEN Round(sx, BAdd(a, b), e, FALSE)
    ELSE AddSigned(sx, a, sy, b, e, BCmp(a, b))

AddAt(x, y, e) == AddAligned(x.s, BShl(x.m, x.e - e), y.s, BShl(y.m, y.e - e), e)

\* the sum of two finite values; an operand more than 64 binary places
\* below the other does not change it
AddFin(x, y) ==
    IF Len(x.m) = 0
    THEN (IF Len(y.m) = 0 THEN SignedZero(IF x.s = 1 /\ y.s = 1 THEN 1 ELSE 0)
          ELSE y)
    ELSE IF Len(y.m) = 0 THEN x
    ELSE IF Top(x) - Top(y) > 64 THEN x
    ELSE IF Top(y) - Top(x) > 64 THEN y
    ELSE AddAt(x, y, IMin(x.e, y.e))

FAdd(x, y) ==
    IF IsNaN(x) \/ IsNaN(y) THEN NaN
    ELSE IF IsInf(x) THEN (IF IsInf(y) /\ y.s # x.s THEN NaN ELSE x)
    ELSE IF IsInf(y) THEN y
    ELSE AddFin(x, y)

FSub(x, y) == FAdd(x, FNeg(y))

Xor(s, t) == IF s = t THEN 0 ELSE 1

FMul(x, y) ==
    IF IsNaN(x) \/ IsNaN(y) THEN NaN
    ELSE IF IsInf(x) \/ IsInf(y)
         THEN (IF IsZero(x) \/ IsZero(y) THEN NaN ELSE Inf(Xor(x.s, y.s)))
    ELSE IF IsZero(x) \/ IsZero(y) THEN SignedZero(Xor(x.s, y.s))
    ELSE Round(Xor(x.s, y.s), BMul(x.m, y.m), x.e + y.e, FALSE)

RatioRound(s, d, e) == Round(s, BTrim(d.q), e, Len(d.r) # 0)

\* a / b for a and b of the same bit length, times 2^e: 56 quotient bits
RatioAligned(s, a, b, e) == RatioRound(s, DivLimbs(a, b, 4), e - 55)

RatioAt(s, a, b, e, n) ==
    RatioAligned(s, BShl(a, n - BBitLen(a)), BShl(b, n - BBitLen(b)),
                 e + BBitLen(a) - BBitLen(b))

\* the f64 nearest to (a / b) * 2^e, for naturals a # 0 and b # 0
Ratio(s, a, b, e) == RatioAt(s, a, b, e, IMax(BBitLen(a), BBitLen(b)))

\* IEEE division: 0/0 and inf/inf are NaN, x/0 is an infinity
FDiv(x, y) ==
    IF IsNaN(x) \/ IsNaN(y) THEN NaN
    ELSE IF IsInf(x) THEN (IF IsInf(y) THEN NaN ELSE Inf(Xor(x.s, y.s)))
    ELSE IF IsInf(y) THEN SignedZero(Xor(x.s, y.s))
    ELSE IF IsZero(y) THEN (IF IsZero(x) THEN NaN ELSE Inf(Xor(x.s, y.s)))
    ELSE IF IsZero(x) THEN SignedZero(Xor(x.s, y.s))
    ELSE Ratio(Xor(x.s, y.s), x.m, y.m, x.e - y.e)

\* the f64 nearest to the fraction n/d of two integers, d # 0
Frac(n, d) == FDiv(FromInt(n), FromInt(d))

MagAt(x, y, e) == BCmp(BShl(x.m, x.e - e), BShl(y.m, y.e - e))

\* order of the magnitudes of two finite non-zero values
CmpMag(x, y) ==
    IF Top(x) # Top(y) THEN (IF Top(x) < Top(y) THEN -1 ELSE 1)
    ELSE MagAt(x, y, IMin(x.e, y.e))

CmpInf(x) == IF IsInf(x) THEN 1 ELSE 0

\* order of the magnitudes of two values that are not NaN
CmpAbs(x, y) ==
    IF IsInf(x) \/ IsInf(y)
    THEN (IF CmpInf(x) = CmpInf(y) THEN 0
          ELSE IF CmpInf(x) < CmpInf(y) THEN -1 ELSE 1)
    ELSE IF IsZero(x) THEN (IF IsZero(y) THEN 0 ELSE -1)
    ELSE IF IsZero(y) THEN 1
    ELSE CmpMag(x, y)

\* -1, 0 or 1 as x is below, equal to or above y (neither is NaN);
\* +0.0 and -0.0 are equal
Cmp(x, y) ==
    IF IsZero(x) /\ IsZero(y) THEN 0
    ELSE IF x.s # y.s THEN (IF x.s = 1 THEN -1 ELSE 1)
    ELSE IF x.s = 0 THEN CmpAbs(x, y)
    ELSE CmpAbs(y, x)

\* IEEE comparisons: every comparison with NaN is false
FLt(x, y) == ~IsNaN(x) /\ ~IsNaN(y) /\ Cmp(x, y) < 0
FGt(x, y) == FLt(y, x)
FLe(x, y) == ~IsNaN(x) /\ ~IsNaN(y) /\ Cmp(x, y) <= 0
FGe(x, y) == FLe(y, x)
FEq(x, y) == ~IsNaN(x) /\ ~IsNaN(y) /\ Cmp(x, y) = 0

\* f64::max as used by the true range: the larger operand, NaN ignored
FMax(x, y) == IF IsNaN(x) THEN y ELSE IF IsNaN(y) THEN x
              ELSE IF FLt(x, y) THEN y ELSE x

\* `b as u8 as ValueType` / `b as i8`
BoolInt(b) == IF b THEN 1 ELSE 0

(***************************************************************************)
(* Bars (the OHLC trait: high, low, close, tr, source).                    *)
(***************************************************************************)
\* every bar with the given highs, lows and closes: the three prices of a
\* bar are independent of each other (any T: OHLC is accepted, and nothing
\* orders low, close and high)
Bars(highs, lows, closes) == [high : highs, low : lows, close : closes]

Candles == Bars(Prices, Prices, Prices)

\* bars for runs of strictly rising prices
RiseCandles == Bars(1 .. MaxRise + 1, 1 .. MaxRise + 1, 1 .. MaxRise + 1)

\* every price of bar b is strictly greater than that of bar a
Above(a, b) == b.high > a.high /\ b.low > a.low /\ b.close > a.close

High(candle) == FromInt(candle.high)
Low(candle) == FromInt(candle.low)
Close(candle) == FromInt(candle.close)

\* OHLC::tr: max(high - low, |high - prev.close|, |low - prev.close|)
TR(candle, prev) ==
    FMax(FMax(FSub(High(candle), Low(candle)),
              FAbs(FSub(High(candle), Close(prev)))),
         FAbs(FSub(Low(candle), Close(prev))))

\* OHLC::source
SourceOf(candle, source) ==
    CASE source = "close" -> Close(candle)
      [] source = "high" -> High(candle)
      [] source = "low" -> Low(candle)

(***************************************************************************)
(* Window: the last `size` items, oldest first.                            *)
(***************************************************************************)
WindowNew(size, seed) == [i \in 1 .. size |-> seed]

\* the item push() returns: the oldest one (the seed until the window has
\* been filled with pushed items)
WindowOldest(w) == Head(w)

\* the window after push(item)
WindowPush(w, item) == Append(Tail(w), item)

(***************************************************************************)
(* RegularMethod: the moving averages built by helpers::method.            *)
(***************************************************************************)
Methods == {"SMA", "WMA", "RMA", "EMA"}

RECURSIVE WeightedSum(_, _)
\* 1 * w[1] + 2 * w[2] + .. + i * w[i], added in this order
WeightedSum(w, i) ==
    IF i = 0 THEN Zero
    ELSE FAdd(WeightedSum(w, i - 1), FMul(FromInt(i), w[i]))

\* smoothing coefficient of the exponential family: Wilder's 1/period for
\* RMA, 2/(period + 1) for EMA
Alpha(kind, period) ==
    CASE kind = "RMA" -> Frac(1, period)
      [] kind = "EMA" -> Frac(2, period + 1)
      [] OTHER -> Zero

\* method(kind, period, seed): SMA and WMA keep a window of `period`
\* inputs, SMA also their running sum
MethodNew(kind, period, seed) ==
    [kind |-> kind, period |-> period, value |-> seed,
     alpha |-> Alpha(kind, period),
     sum |-> IF kind = "SMA" THEN FMul(seed, FromInt(period)) ELSE Zero,
     window |-> IF kind \in {"SMA", "WMA"} THEN WindowNew(period, seed)
                ELSE <<>>]

\* previous * (1 - alpha) + input * alpha
Smoothed(previous, input, alpha) ==
    FAdd(FMul(previous, FSub(One, alpha)), FMul(input, alpha))

\* the running sum with the new input added and the evicted one taken off
SumNext(m, x) == FAdd(m.sum, FSub(x, WindowOldest(m.window)))

SMANext(m, x, sum) ==
    [m EXCEPT !.sum = sum,
              !.value = FDiv(sum, FromInt(m.period)),
              !.window = WindowPush(m.window, x)]

WMANext(m, w) ==
    [m EXCEPT !.value = FDiv(WeightedSum(w, m.period),
                             FromInt((m.period * (m.period + 1)) \div 2)),
              !.window = w]

\* RegularMethod::next: the method after consuming x; its output is .value
MethodNext(m, x) ==
    CASE m.kind \in {"RMA", "EMA"} ->
            [m EXCEPT !.value = Smoothed(m.value, x, m.alpha)]
      [] m.kind = "SMA" -> SMANext(m, x, SumNext(m, x))
      [] m.kind = "WMA" -> WMANext(m, WindowPush(m.window, x))

(***************************************************************************)
(* str::parse for the field types of the two configurations.  A parse      *)
(* yields [ok, v]; `.unwrap()` of a failed parse panics.                   *)
(***************************************************************************)
Digits == {"0", "1", "2", "3", "4", "5", "6", "7", "8", "9"}

DigitVal(ch) ==
    CASE ch = "0" -> 0 [] ch = "1" -> 1 [] ch = "2" -> 2 [] ch = "3" -> 3
      [] ch = "4" -> 4 [] ch = "5" -> 5 [] ch = "6" -> 6 [] ch = "7" -> 7
      [] ch = "8" -> 8 [] ch = "9" -> 9

AllDigits(s) == \A i \in 1 .. Len(s) : s[i] \in Digits

\* the largest PeriodType (u8)
PeriodTypeMax == 2^8 - 1

\* index of the first character of s that is in cs, or 0
FirstOf(s, cs) ==
    IF \E i \in 1 .. Len(s) : s[i] \in cs
    THEN CHOOSE i \in 1 .. Len(s) : s[i] \in cs /\ \A j \in 1 .. i - 1 : s[j] \notin cs
    ELSE 0

\* the digits of s from its first non-zero digit on
Significant(s) ==
    IF \E i \in 1 .. Len(s) : s[i] # "0"
    THEN SubSeq(s, FirstOf(s, Digits \ {"0"}), Len(s))
    ELSE <<>>

RECURSIVE DigitsVal(_, _)
\* the number written by the digits s[1 .. i]
DigitsVal(s, i) == IF i = 0 THEN 0 ELSE 10 * DigitsVal(s, i - 1) + DigitVal(s[i])

\* the number written by the digits s, or 10^width when it has more than
\* `width` significant digits
DigitsUpTo(s, width) ==
    IF Len(Significant(s)) > width THEN 10^width
    ELSE DigitsVal(Significant(s), Len(Significant(s)))

ParseErr == [ok |-> FALSE, v |-> 0]

PeriodOf(n) == IF n > PeriodTypeMax THEN ParseErr ELSE [ok |-> TRUE, v |-> n]

\* parse::<PeriodType>: an optional '+' and at least one digit; a number
\* above PeriodTypeMax is an error (PosOverflow)
ParsePeriod(s) ==
    LET d == IF Len(s) > 1 /\ s[1] = "+" THEN Tail(s) ELSE s
    IN  IF Len(d) > 0 /\ AllDigits(d) THEN PeriodOf(DigitsUpTo(d, 3))
        ELSE ParseErr

LowerCase(ch) ==
    CASE ch = "A" -> "a" [] ch = "F" -> "f" [] ch = "I" -> "i"
      [] ch = "N" -> "n" [] ch = "T" -> "t" [] ch = "Y" -> "y"
      [] OTHER -> ch

\* s is the word w, in any mix of cases
IsWord(s, w) ==
    Len(s) = Len(w) /\ \A i \in 1 .. Len(s) : LowerCase(s[i]) = w[i]

BSquare(a) == BMul(a, a)

RECURSIVE BPow10(_)
\* 10^k, by repeated squaring
BPow10(k) ==
    IF k = 0 THEN <<1>>
    ELSE IF k % 2 = 1 THEN BScale(BPow10(k - 1), 10)
    ELSE BSquare(BPow10(k \div 2))

RECURSIVE BFromDigits(_, _, _)
\* the number written by the digits s[lo .. hi]
BFromDigits(s, lo, hi) ==
    IF lo > hi THEN <<>>
    ELSE IF lo = hi THEN BFromNat(DigitVal(s[lo]))
    ELSE BTrim(BAdd(BMul(BFromDigits(s, lo, (lo + hi) \div 2),
                         BPow10(hi - (lo + hi) \div 2)),
                    BFromDigits(s, (lo + hi) \div 2 + 1, hi)))

\* the f64 nearest to n * 10^t, for a natural n # 0
Scaled(sign, n, t) ==
    IF t >= 0 THEN Round(sign, BMul(n, BPow10(t)), 0, FALSE)
    ELSE Ratio(sign, n, BPow10(-t), 0)

\* the f64 nearest to the number written by `digits`, times 10^t: an
\* infinity from 10^309 on, zero below 10^-324
Decimal(sign, digits, t) ==
    IF Len(Significant(digits)) = 0 THEN SignedZero(sign)
    ELSE IF Len(Significant(digits)) - 1 + t >= 309 THEN Inf(sign)
    ELSE IF Len(Significant(digits)) + t <= -324 THEN SignedZero(sign)
    ELSE Scaled(sign, BFromDigits(digits, 1, Len(digits)), t)

\* the exponent written after 'e': digits with an optional sign (numbers
\* of more than 5 digits are taken as 100000)
ExponentOf(s) ==
    LET signed == Len(s) > 0 /\ s[1] \in {"+", "-"}
        d == IF signed THEN Tail(s) ELSE s
    IN  IF Len(d) > 0 /\ AllDigits(d)
        THEN [ok |-> TRUE,
              v |-> IF s[1] = "-" THEN -DigitsUpTo(d, 5) ELSE DigitsUpTo(d, 5)]
        ELSE ParseErr

\* the number `ip`.`fp` e `exp`
NumberOf(sign, ip, fp, exp) ==
    IF AllDigits(ip) /\ AllDigits(fp) /\ Len(ip) + Len(fp) >= 1 /\ exp.ok
    THEN [ok |-> TRUE, v |-> Decimal(sign, ip \o fp, exp.v - Len(fp))]
    ELSE [ok |-> FALSE, v |-> Zero]

\* the digits of `num` before and after its first '.'
PointOf(sign, num, dot, exp) ==
    NumberOf(sign,
             IF dot = 0 THEN num ELSE SubSeq(num, 1, dot - 1),
             IF dot = 0 THEN <<>> ELSE SubSeq(num, dot + 1, Len(num)),
             exp)

\* the number before and the exponent after the first 'e' or 'E' of body
ScientificOf(sign, body, ex) ==
    IF ex = 0 THEN PointOf(sign, body, FirstOf(body, {"."}), [ok |-> TRUE, v |-> 0])
    ELSE PointOf(sign, SubSeq(body, 1, ex - 1),
                 FirstOf(SubSeq(body, 1, ex - 1), {"."}),
                 ExponentOf(SubSeq(body, ex + 1, Len(body))))

UnsignedOf(sign, body) ==
    IF IsWord(body, <<"n", "a", "n">>) THEN [ok |-> TRUE, v |-> NaN]
    ELSE IF IsWord(body, <<"i", "n", "f">>)
            \/ IsWord(body, <<"i", "n", "f", "i", "n", "i", "t", "y">>)
         THEN [ok |-> TRUE, v |-> Inf(sign)]
    ELSE ScientificOf(sign, body, FirstOf(body, {"e", "E"}))

\* parse::<ValueType>: an optional sign, then "inf", "infinity" or "nan" in
\* any case, or digits with at most one '.' (a digit on at least one side
\* of it) and an optional exponent; the value is rounded to the nearest f64
ParseValue(s) ==
    IF Len(s) > 0 /\ s[1] \in {"+", "-"}
    THEN UnsignedOf(IF s[1] = "-" THEN 1 ELSE 0, Tail(s))
    ELSE UnsignedOf(0, s)

\* parse::<RegularMethods>
ParseMethod(s) ==
    CASE s = <<"s", "m", "a">> -> [ok |-> TRUE, v |-> "SMA"]
      [] s = <<"w", "m", "a">> -> [ok |-> TRUE, v |-> "WMA"]
      [] s = <<"r", "m", "a">> -> [ok |-> TRUE, v |-> "RMA"]
      [] s = <<"e", "m", "a">> -> [ok |-> TRUE, v |-> "EMA"]
      [] OTHER -> [ok |-> FALSE, v |-> ""]

\* parse::<Source>
ParseSource(s) ==
    CASE s = <<"c", "l", "o", "s", "e">> -> [ok |-> TRUE, v |-> "close"]
      [] s = <<"h", "i", "g", "h">> -> [ok |-> TRUE, v |-> "high"]
      [] s = <<"l", "o", "w">> -> [ok |-> TRUE, v |-> "low"]
      [] OTHER -> [ok |-> FALSE, v |-> ""]

\* `self.field = value.parse().unwrap()`: the assignment, or a panic that
\* leaves the configuration as it was
Assign(c, field, parsed) ==
    IF parsed.ok
    THEN [cfg |-> [c EXCEPT ![field] = parsed.v], panic |-> FALSE, diag |-> FALSE]
    ELSE [cfg |-> c, panic |-> TRUE, diag |-> FALSE]

\* the `_ =>` arm: dbg!(..) prints a diagnostic and returns
UnknownAttribute(c) == [cfg |-> c, panic |-> FALSE, diag |-> TRUE]

(***************************************************************************)
(* AverageDirectionalIndex: the configuration.                             *)
(***************************************************************************)
ADXDefault ==
    [method1 |-> "RMA", di_length |-> 14, method2 |-> "RMA",
     adx_smoothing |-> 14, period1 |-> 1, zone |-> Frac(2, 10)]

\* validate() with `period1 <= di_length` in place of `period1 < di_length`
ADXValidateLoose(c) ==
    /\ c.di_length >= 1
    /\ c.adx_smoothing >= 1
    /\ FGe(c.zone, Zero)
    /\ FLe(c.zone, One)
    /\ c.period1 >= 1
    /\ c.period1 <= c.di_length
    /\ c.period1 < c.adx_smoothing

ADXValidate(c) ==
    /\ c.di_length >= 1
    /\ c.adx_smoothing >= 1
    /\ FGe(c.zone, Zero)
    /\ FLe(c.zone, One)
    /\ c.period1 >= 1
    /\ c.period1 < c.di_length
    /\ c.period1 < c.adx_smoothing

ADXSet(c, name, value) ==
    CASE name = "method1" -> Assign(c, "method1", ParseMethod(value))
      [] name = "di_length" -> Assign(c, "di_length", ParsePeriod(value))
      [] name = "method2" -> Assign(c, "method2", ParseMethod(value))
      [] name = "adx_smoothing" -> Assign(c, "adx_smoothing", ParsePeriod(value))
      [] name = "period1" -> Assign(c, "period1", ParsePeriod(value))
      [] name = "zone" -> Assign(c, "zone", ParseValue(value))
      [] OTHER -> UnknownAttribute(c)

ADXSize(c) == <<3, 2>>

(***************************************************************************)
(* AverageDirectionalIndexInstance.                                        *)
(***************************************************************************)
ADXInit(c, candle) ==
    [cfg |-> c,
     window |-> WindowNew(c.period1, candle),
     tr_ma |-> MethodNew(c.method1, c.di_length, TR(candle, candle)),
     plus_di |-> MethodNew(c.method1, c.di_length, Zero),
     minus_di |-> MethodNew(c.method1, c.di_length, Zero),
     ma2 |-> MethodNew(c.method2, c.adx_smoothing, Zero)]

\* +DM without the `du > dd` test
PlusDMNoCompare(du, dd) == FMul(du, FromInt(BoolInt(FGt(du, Zero))))

\* +DM: du when du > dd and du > 0, otherwise 0
PlusDM(du, dd) == FMul(du, FromInt(BoolInt(FGt(du, dd) /\ FGt(du, Zero))))

\* -DM: dd when dd > du and dd > 0, otherwise 0
MinusDM(du, dd) == FMul(dd, FromInt(BoolInt(FGt(dd, du) /\ FGt(dd, Zero))))

\* a window.push that returns the newest bar instead of the oldest
PrevCandleNewest(inst) == inst.window[Len(inst.window)]

\* the bar dir_mov measures the new bar against: what window.push returns
PrevCandle(inst) == WindowOldest(inst.window)

\* `plus_di_value / true_range`, `minus_di_value / true_range`
DIRatio(di_value, true_range) == FDiv(di_value, true_range)

\* dir_mov: the instance after the call, the pair it returns, and the
\* intermediate prev_candle, +DM and -DM
\* (each step is an operator of the values computed before it)
DirMov(inst, candle) ==
    LET Return(prev_candle, tr, tr_ma, du, dd, plus_dm, minus_dm, plus_di, minus_di) ==
            [inst |-> [inst EXCEPT !.window = WindowPush(inst.window, candle),
                                   !.tr_ma = tr_ma,
                                   !.plus_di = plus_di,
                                   !.minus_di = minus_di],
             plus |-> DIRatio(plus_di.value, tr_ma.value),
             minus |-> DIRatio(minus_di.value, tr_ma.value),
             true_range |-> tr_ma.value,
             prev_candle |-> prev_candle, tr |-> tr,
             du |-> du, dd |-> dd,
             plus_dm |-> plus_dm, minus_dm |-> minus_dm]
        Smooth(prev_candle, tr, du, dd, plus_dm, minus_dm) ==
            Return(prev_candle, tr, MethodNext(inst.tr_ma, tr),
                   du, dd, plus_dm, minus_dm,
                   MethodNext(inst.plus_di, plus_dm),
                   MethodNext(inst.minus_di, minus_dm))
        Moves(prev_candle, du, dd) ==
            Smooth(prev_candle, TR(candle, prev_candle),
                   du, dd, PlusDM(du, dd), MinusDM(du, dd))
        Against(prev_candle) ==
            Moves(prev_candle,
                  FSub(High(candle), High(prev_candle)),
                  FSub(Low(prev_candle), Low(candle)))
    IN  Against(PrevCandle(inst))

\* adx: ma2 after the call; its .value is what adx returns
Adx(ma2, plus, minus) ==
    LET s == FAdd(plus, minus)
    IN  IF FEq(s, Zero) THEN MethodNext(ma2, Zero)
        ELSE MethodNext(ma2, FDiv(FAbs(FSub(plus, minus)), s))

\* signal1 with `adx >= zone` in place of `adx > zone`
Signal1AtZone(adx, zone, plus, minus) ==
    BoolInt(FGe(adx, zone)) * (BoolInt(FGt(plus, minus)) - BoolInt(FLt(plus, minus)))

\* signal1, an i8
Signal1(adx, zone, plus, minus) ==
    BoolInt(FGt(adx, zone)) * (BoolInt(FGt(plus, minus)) - BoolInt(FLt(plus, minus)))

Signal2(plus, minus) == FSub(plus, minus)

\* a values array that leaves -DI out
ADXValuesShort(adx, plus, minus) == <<adx, plus>>

ADXValues(adx, plus, minus) == <<adx, plus, minus>>

\* the signals hold the numbers handed to `.into()`
ADXSignals(signal1, signal2) == <<FromInt(signal1), signal2>>

\* IndicatorResult::new(&values, &signals)
IndicatorResultNew(values, signals) == [values |-> values, signals |-> signals]

\* a next call that stores the previous ADX in cfg.zone
ADXNextCfgZoneWritten(inst) == [inst.cfg EXCEPT !.zone = inst.ma2.value]

\* the configuration an ADX next call leaves in the instance
ADXNextCfg(inst) == inst.cfg

\* next: the instance after the call, the Result, and dir_mov's record
ADXNext(inst, candle) ==
    LET Return(dm, ma2, signal1, signal2) ==
            [inst |-> [dm.inst EXCEPT !.ma2 = ma2, !.cfg = ADXNextCfg(inst)],
             result |-> IndicatorResultNew(ADXValues(ma2.value, dm.plus, dm.minus),
                                           ADXSignals(signal1, signal2)),
             dm |-> [prev_candle |-> dm.prev_candle, tr |-> dm.tr,
                     true_range |-> dm.true_range,
                     du |-> dm.du, dd |-> dm.dd,
                     plus_dm |-> dm.plus_dm, minus_dm |-> dm.minus_dm]]
        Signals(dm, ma2) ==
            Return(dm, ma2,
                   Signal1(ma2.value, inst.cfg.zone, dm.plus, dm.minus),
                   Signal2(dm.plus, dm.minus))
        WithDirMov(dm) == Signals(dm, Adx(dm.inst.ma2, dm.plus, dm.minus))
    IN  WithDirMov(DirMov(inst, candle))

(***************************************************************************)
(* CoppockCurve: the configuration.                                        *)
(***************************************************************************)
CCDefault ==
    [period1 |-> 10, period2 |-> 14, period3 |-> 11, s2_left |-> 4,
     s2_right |-> 2, s3_period |-> 5, source |-> "close",
     method1 |-> "WMA", method2 |-> "EMA"]

CCValidate(c) == TRUE

CCSet(c, name, value) ==
    CASE name = "period1" -> Assign(c, "period1", ParsePeriod(value))
      [] name = "period2" -> Assign(c, "period2", ParsePeriod(value))
      [] name = "period3" -> Assign(c, "period3", ParsePeriod(value))
      [] name = "s2_left" -> Assign(c, "s2_left", ParsePeriod(value))
      [] name = "s2_right" -> Assign(c, "s2_right", ParsePeriod(value))
      [] name = "s3_period" -> Assign(c, "s3_period", ParsePeriod(value))
      [] name = "source" -> Assign(c, "source", ParseSource(value))
      [] name = "method1" -> Assign(c, "method1", ParseMethod(value))
      [] name = "method2" -> Assign(c, "method2", ParseMethod(value))
      [] OTHER -> UnknownAttribute(c)

CCSize(c) == <<2, 3>>

(***************************************************************************)
(* The signal primitives CoppockCurve is composed of.                      *)
(***************************************************************************)
\* RateOfChange::new(period, seed)
ROCNew(period, seed) == WindowNew(period, seed)

\* RateOfChange::next: the change against the value `period` steps back
ROCValue(roc, x) == FDiv(FSub(x, WindowOldest(roc)), WindowOldest(roc))

ROCNext(roc, x) == WindowPush(roc, x)

\* Cross::default(): no previous pair
CrossDefault == [has |-> FALSE, delta |-> Zero]

\* Cross::next((a, b)): +1 a crosses above b, -1 a crosses below b, else 0
CrossValue(cross, a, b) ==
    LET d == FSub(a, b)
    IN  IF ~cross.has THEN 0
        ELSE IF FLt(cross.delta, Zero) /\ FGt(d, Zero) THEN 1
        ELSE IF FGt(cross.delta, Zero) /\ FLt(d, Zero) THEN -1
        ELSE 0

CrossNext(cross, a, b) == [has |-> TRUE, delta |-> FSub(a, b)]

\* ReverseSignal::new(left, right, seed)
ReverseNew(left, right, seed) ==
    [left |-> left, right |-> right, window |-> WindowNew(left + right + 1, seed)]

ReverseNext(rs, x) == [rs EXCEPT !.window = WindowPush(rs.window, x)]

\* ReverseSignal::next: +1 when the point `right` steps back is the strict
\* maximum of its window, -1 when it is the strict minimum, else 0
ReverseValue(rs, x) ==
    LET w == WindowPush(rs.window, x)
        p == rs.left + 1
        others == (1 .. Len(w)) \ {p}
    IN  IF \A i \in others : FLt(w[i], w[p]) THEN 1
        ELSE IF \A i \in others : FGt(w[i], w[p]) THEN -1
        ELSE 0

(***************************************************************************)
(* CoppockCurveInstance.                                                   *)
(***************************************************************************)
CCInit(c, candle) ==
    LET src == SourceOf(candle, c.source)
    IN  [cfg |-> c,
         roc1 |-> ROCNew(c.period2, src),
         roc2 |-> ROCNew(c.period3, src),
         ma1 |-> MethodNew(c.method1, c.period1, Zero),
         ma2 |-> MethodNew(c.method2, c.s3_period, Zero),
         cross_over1 |-> CrossDefault,
         pivot |-> ReverseNew(c.s2_left, c.s2_right, Zero),
         cross_over2 |-> CrossDefault]

CCValues(value1, value2) == <<value1, value2>>

CCSignals(signal1, signal2, signal3) ==
    <<FromInt(signal1), FromInt(signal2), FromInt(signal3)>>

\* the configuration a CoppockCurve next call leaves in the instance
CCNextCfg(inst) == inst.cfg

\* (each step is an operator of the values computed before it)
CCNext(inst, candle) ==
    LET Return(src, ma1, ma2) ==
            [inst |-> [cfg |-> CCNextCfg(inst),
                       roc1 |-> ROCNext(inst.roc1, src),
                       roc2 |-> ROCNext(inst.roc2, src),
                       ma1 |-> ma1,
                       ma2 |-> ma2,
                       cross_over1 |-> CrossNext(inst.cross_over1, ma1.value, Zero),
                       pivot |-> ReverseNext(inst.pivot, ma1.value),
                       cross_over2 |->
                           CrossNext(inst.cross_over2, ma1.value, ma2.value)],
             result |->
                 IndicatorResultNew(
                     CCValues(ma1.value, ma2.value),
                     CCSignals(CrossValue(inst.cross_over1, ma1.value, Zero),
                               ReverseValue(inst.pivot, ma1.value),
                               CrossValue(inst.cross_over2, ma1.value, ma2.value)))]
        Second(src, ma1) == Return(src, ma1, MethodNext(inst.ma2, ma1.value))
        First(src) ==
            Second(src, MethodNext(inst.ma1, FAdd(ROCValue(inst.roc1, src),
                                                  ROCValue(inst.roc2, src))))
    IN  First(SourceOf(candle, inst.cfg.source))

(***************************************************************************)
(* Inputs of the model.                                                    *)
(***************************************************************************)
\* field names handed to set(): every field of either configuration, and
\* one name neither has
SetNames ==
    {"method1", "di_length", "method2", "adx_smoothing", "period1", "zone",
     "period2", "period3", "s2_left", "s2_right", "s3_period", "source",
     "length"}

\* values handed to set()
SetValues ==
    {<<"0">>, <<"1">>, <<"2">>, <<"1", "4">>, <<"2", "5", "5">>,
     <<"2", "5", "6">>, <<"0", ".", "5">>, <<"-", "1">>, <<"1", "e", "0">>,
     <<"i", "n", "f">>, <<"N", "a", "N">>, <<"x">>, <<>>,
     <<"s", "m", "a">>, <<"e", "m", "a">>, <<"h", "i", "g", "h">>}

\* the default configuration with its two smoothing lengths shortened to
\* MaxPeriod
ADXBase == [ADXDefault EXCEPT !.di_length = MaxPeriod, !.adx_smoothing = MaxPeriod]

\* configurations of running ADX instances, built field by field (every
\* field is pub): each method in either role, both reference distances,
\* the zone 1/2 (the ADX that an EMA over 3 bars or an SMA over 2 gives
\* after one fully directional bar), and a configuration validate()
\* rejects, which init binds all the same
ADXConfigs ==
    {ADXBase,
     [ADXBase EXCEPT !.method1 = "SMA", !.method2 = "EMA", !.zone = Frac(1, 2)],
     [ADXBase EXCEPT !.method1 = "WMA", !.method2 = "SMA",
                     !.adx_smoothing = MaxPeriod - 1, !.zone = Frac(1, 2)],
     [ADXBase EXCEPT !.method1 = "EMA", !.method2 = "WMA",
                     !.period1 = MaxPeriod - 1],
     [ADXBase EXCEPT !.period1 = MaxPeriod]}

\* for the window of reference bars: the default configuration and
\* ADXBase with every reference distance validate() accepts
ADXDeepConfigs ==
    {ADXDefault} \cup {[ADXBase EXCEPT !.period1 = p] : p \in 1 .. MaxPeriod - 1}

\* for runs of rising prices: every valid combination of the fields the
\* two directional indicators depend on
ADXRiseConfigs ==
    {c \in [method1 : Methods, di_length : {MaxPeriod - 1, MaxPeriod},
            method2 : {ADXBase.method2}, adx_smoothing : {MaxPeriod},
            period1 : 1 .. MaxPeriod - 1, zone : {ADXBase.zone}] :
        ADXValidate(c)}

\* configurations of running CoppockCurve instances: the default with its
\* periods shortened to at most MaxPeriod, and one that differs from it in
\* the source, both methods and two periods
CCBase ==
    [CCDefault EXCEPT !.period1 = MaxPeriod, !.period2 = MaxPeriod,
                      !.period3 = MaxPeriod, !.s2_left = MaxPeriod,
                      !.s3_period = MaxPeriod]

CCConfigs ==
    {CCBase,
     [CCBase EXCEPT !.period2 = MaxPeriod - 1, !.s2_right = 1,
                    !.source = "high", !.method1 = "SMA", !.method2 = "RMA"]}

\* bars of the longer runs: every high and low, one close
DeepCandles == Bars(Prices, Prices, {1})

(***************************************************************************)
(* The state machine: a configuration is built, changed by set(), bound    *)
(* to a first bar by init and then fed bars by next.                       *)
(***************************************************************************)
VARIABLES
    kind,      \* "adx" or "cc": which indicator this run is about
    phase,     \* "config", "running", or "panicked" after a failed unwrap
    cfg,       \* the configuration value (before init consumes it)
    sets,      \* number of set() calls made
    last,      \* the last set() call: its arguments, the configuration
               \* before it and whether it printed the diagnostic
    inst,      \* the instance (after init)
    result,    \* the Result of the last next call
    calls,     \* number of next calls made
    bars,      \* the bar given to init followed by the bars given to next
    dm,        \* dir_mov's intermediate values in the last ADX next call
    bound      \* the configuration that was passed to init

vars == <<kind, phase, cfg, sets, last, inst, result, calls, bars, dm, bound>>

None == <<>>

Default(k) == IF k = "adx" THEN ADXDefault ELSE CCDefault

Validate(k, c) == IF k = "adx" THEN ADXValidate(c) ELSE CCValidate(c)

Size(k, c) == IF k = "adx" THEN ADXSize(c) ELSE CCSize(c)

\* instance.config()
Config(i) == i.cfg

Unused ==
    /\ sets = 0 /\ last = None /\ inst = None /\ result = None
    /\ calls = 0 /\ bars = <<>> /\ dm = None /\ bound = None

\* a configuration as the Default trait builds it
InitConfig ==
    /\ kind \in {"adx", "cc"}
    /\ phase = "config"
    /\ cfg = Default(kind)
    /\ Unused

\* an ADX configuration of ADXDeepConfigs
InitDeep ==
    /\ kind = "adx"
    /\ phase = "config"
    /\ cfg \in ADXDeepConfigs
    /\ Unused

\* an ADX configuration of ADXRiseConfigs
InitRising ==
    /\ kind = "adx"
    /\ phase = "config"
    /\ cfg \in ADXRiseConfigs
    /\ Unused

\* a configuration built field by field (every field is pub)
InitRun ==
    /\ kind \in {"adx", "cc"}
    /\ phase = "config"
    /\ cfg \in (IF kind = "adx" THEN ADXConfigs ELSE CCConfigs)
    /\ Unused

DoSet(out, name, value) ==
    /\ cfg' = out.cfg
    /\ phase' = IF out.panic THEN "panicked" ELSE "config"
    /\ sets' = sets + 1
    /\ last' = [name |-> name, value |-> value, before |-> cfg, diag |-> out.diag]
    /\ UNCHANGED <<kind, inst, result, calls, bars, dm, bound>>

SetADX(name, value) ==
    /\ kind = "adx" /\ phase = "config" /\ sets < MaxSets
    /\ DoSet(ADXSet(cfg, name, value), name, value)

SetCC(name, value) ==
    /\ kind = "cc" /\ phase = "config" /\ sets < MaxSets
    /\ DoSet(CCSet(cfg, name, value), name, value)

\* init consumes the configuration as it is: it does not call validate()
InitADX(candle) ==
    /\ kind = "adx" /\ phase = "config"
    /\ inst' = ADXInit(cfg, candle)
    /\ bound' = cfg
    /\ phase' = "running"
    /\ bars' = <<candle>>
    /\ UNCHANGED <<kind, cfg, sets, last, result, calls, dm>>

InitCC(candle) ==
    /\ kind = "cc" /\ phase = "config"
    /\ inst' = CCInit(cfg, candle)
    /\ bound' = cfg
    /\ phase' = "running"
    /\ bars' = <<candle>>
    /\ UNCHANGED <<kind, cfg, sets, last, result, calls, dm>>

StepADX(candle, limit) ==
    /\ kind = "adx" /\ phase = "running" /\ calls < limit
    /\ \E r \in {ADXNext(inst, candle)} :
           /\ inst' = r.inst
           /\ result' = r.result
           /\ dm' = r.dm
    /\ calls' = calls + 1
    /\ bars' = Append(bars, candle)
    /\ UNCHANGED <<kind, phase, cfg, sets, last, bound>>

NextADX(candle) == StepADX(candle, MaxNext)

DeepADX(candle) == StepADX(candle, MaxDeep)

\* a next call with a bar that rises above the bar before it
RiseADX(candle) ==
    /\ phase = "running"
    /\ Above(bars[Len(bars)], candle)
    /\ StepADX(candle, MaxRise)

NextCC(candle) ==
    /\ kind = "cc" /\ phase = "running" /\ calls < MaxNext
    /\ \E r \in {CCNext(inst, candle)} :
           /\ inst' = r.inst
           /\ result' = r.result
    /\ calls' = calls + 1
    /\ bars' = Append(bars, candle)
    /\ UNCHANGED <<kind, phase, cfg, sets, last, dm, bound>>

NextConfig ==
    \/ \E name \in SetNames, value \in SetValues : SetADX(name, value)
    \/ \E name \in SetNames, value \in SetValues : SetCC(name, value)

NextRun ==
    \/ \E candle \in Candles : InitADX(candle)
    \/ \E candle \in Candles : NextADX(candle)
    \/ \E candle \in Candles : InitCC(candle)
    \/ \E candle \in Candles : NextCC(candle)

NextDeep ==
    \/ \E candle \in DeepCandles : InitADX(candle)
    \/ \E candle \in DeepCandles : DeepADX(candle)

NextRising ==
    \/ \E candle \in RiseCandles : InitADX(candle)
    \/ \E candle \in RiseCandles : RiseADX(candle)

\* the life of a configuration under set()
SpecConfig == InitConfig /\ [][NextConfig]_vars

\* the life of an instance under init and next
Spec == InitRun /\ [][NextRun]_vars

\* the life of an ADX instance fed strictly rising bars
SpecRising == InitRising /\ [][NextRising]_vars

\* a longer life of an ADX instance, for the window of reference bars
SpecDeep == InitDeep /\ [][NextDeep]_vars

(***************************************************************************)
(* Properties.                                                             *)
(***************************************************************************)
Running(k) == kind = k /\ phase = "running"

\* the bar given to the latest next call
LastBar == bars[Len(bars)]

\* the bar given to the j-th next call (bars[1] went to init)
NextBar(j) == bars[j + 1]

\* C1: every Result returned by next has as many values and signals as
\* size() declares for the bound configuration, and size() is <<3, 2>> for
\* every ADX configuration and <<2, 3>> for every CoppockCurve one.
C1_ResultArity ==
    /\ \A c \in ADXConfigs \cup {ADXDefault} : ADXSize(c) = <<3, 2>>
    /\ \A c \in CCConfigs \cup {CCDefault} : CCSize(c) = <<2, 3>>
    /\ (phase = "running" /\ calls >= 1) =>
          /\ Len(result.values) = Size(kind, Config(inst))[1]
          /\ Len(result.signals) = Size(kind, Config(inst))[2]
          /\ Len(result.values) = Size(kind, bound)[1]
          /\ Len(result.signals) = Size(kind, bound)[2]

C1_Witness ==
    /\ Running("cc") /\ calls = 2
    /\ Len(result.values) = 2 /\ Len(result.signals) = 3

\* the period fields and the fields of a configuration
IsPeriodField(k, name) ==
    IF k = "adx" THEN name \in {"di_length", "adx_smoothing", "period1"}
    ELSE name \in {"period1", "period2", "period3", "s2_left", "s2_right",
                   "s3_period"}

IsKnownField(k, name) ==
    IF k = "adx" THEN name \in DOMAIN ADXDefault ELSE name \in DOMAIN CCDefault

\* the value can be parsed into the type of the named field
Parses(k, name, value) ==
    CASE IsPeriodField(k, name) -> ParsePeriod(value).ok
      [] name = "zone" -> ParseValue(value).ok
      [] name = "source" -> ParseSource(value).ok
      [] OTHER -> ParseMethod(value).ok

\* C2: set(name, value) never crashes: with an unknown name or a value that
\* cannot be parsed it returns normally, prints a diagnostic and leaves
\* every field unchanged.
C2_SetNeverCrashes ==
    /\ phase # "panicked"
    /\ (sets >= 1 /\ (~IsKnownField(kind, last.name)
                      \/ ~Parses(kind, last.name, last.value)))
          => (last.diag /\ cfg = last.before)

\* C3: validate() is false whenever a period field is 0.
C3_ValidateRejectsZeroPeriod ==
    Validate(kind, cfg) =>
        \A f \in DOMAIN cfg : IsPeriodField(kind, f) => cfg[f] # 0

\* z is a number of the interval [0, 1]: zero, or positive and either
\* below 2^0 or 1 itself
InUnit(z) ==
    /\ z.c = "fin"
    /\ \/ Len(z.m) = 0
       \/ z.s = 0 /\ (BBitLen(z.m) + z.e <= 0 \/ (z.m = <<1>> /\ z.e = 0))

\* the conditions of validate(), on the fields of the configuration
C4_Conditions(c) ==
    /\ c.di_length >= 1
    /\ c.adx_smoothing >= 1
    /\ InUnit(c.zone)
    /\ c.period1 >= 1
    /\ ~(c.period1 >= c.di_length)
    /\ ~(c.period1 >= c.adx_smoothing)

\* C4: ADX validate() is true exactly when di_length >= 1,
\* adx_smoothing >= 1, 0 <= zone <= 1, period1 >= 1, period1 < di_length
\* and period1 < adx_smoothing; the Default configuration passes it.
C4_ValidateExact ==
    kind = "adx" =>
        /\ ADXValidate(cfg) <=> C4_Conditions(cfg)
        /\ sets = 0 => (cfg = ADXDefault /\ ADXValidate(cfg))

C4_Witness ==
    /\ kind = "adx" /\ sets >= 1 /\ phase = "config"
    /\ cfg.di_length >= 1 /\ cfg.period1 >= cfg.di_length
    /\ cfg.period1 < cfg.adx_smoothing
    /\ ~ADXValidate(cfg)

\* C5: no not-a-number quotient reaches the values or signals emitted by an
\* ADX next call: every division by a zero denominator has a fallback.
C5_NoNaNEmitted ==
    (Running("adx") /\ calls >= 1) =>
        /\ \A i \in 1 .. Len(result.values) : ~IsNaN(result.values[i])
        /\ \A i \in 1 .. Len(result.signals) : ~IsNaN(result.signals[i])

Rising == \A i \in 1 .. Len(bars) - 1 : Above(bars[i], bars[i + 1])

\* C6: with a valid configuration and bars whose high, low and close each
\* rise strictly from bar to bar, the second signal (+DI minus -DI) is
\* strictly positive after every next call.
C6_RisingPositive ==
    (Running("adx") /\ calls >= 1 /\ ADXValidate(bound) /\ Rising) =>
        FGt(result.signals[2], Zero)

\* C7: the first ADX signal is +1 exactly when ADX > zone and +DI > -DI,
\* -1 exactly when ADX > zone and -DI > +DI, and 0 in every other case.
C7_Signal1 ==
    (Running("adx") /\ calls >= 1) =>
        LET adx == result.values[1]
            plus == result.values[2]
            minus == result.values[3]
            over == FGt(adx, bound.zone)
            s == result.signals[1]
        IN  /\ s \in {FromInt(-1), FromInt(0), FromInt(1)}
            /\ s = FromInt(1) <=> (over /\ FGt(plus, minus))
            /\ s = FromInt(-1) <=> (over /\ FGt(minus, plus))
            /\ s = FromInt(0) <=> (~over \/ (~FGt(plus, minus) /\ ~FGt(minus, plus)))

C7_Witness ==
    /\ Running("adx") /\ calls >= 1
    /\ result.signals[1] = FromInt(-1)
    /\ FGt(result.values[1], bound.zone)
    /\ FGt(result.values[3], result.values[2])

\* C8: config() returns the configuration that was passed to init, after
\* any number of next calls.
C8_ConfigUnchanged ==
    phase = "running" => Config(inst) = bound

C8_Witness ==
    /\ Running("adx") /\ calls = 2 /\ Config(inst) = bound
    /\ FGt(result.values[1], bound.zone)

\* the bar the latest next call is to be measured against
C9_Reference ==
    IF calls <= bound.period1 THEN bars[1] ELSE NextBar(calls - bound.period1)

\* C9: the k-th ADX next call measures the true range and the directional
\* movement against the bar passed to init when k <= period1, and against
\* the bar passed to the (k - period1)-th next call when k > period1; the
\* window never holds more than period1 bars.
C9_ReferenceBar ==
    (Running("adx") /\ calls >= 1) =>
        /\ dm.prev_candle = C9_Reference
        /\ dm.tr = TR(LastBar, C9_Reference)
        /\ dm.du = FromInt(LastBar.high - C9_Reference.high)
        /\ dm.dd = FromInt(C9_Reference.low - LastBar.low)
        /\ Len(inst.window) <= bound.period1

C9_Witness ==
    /\ Running("adx") /\ calls = 3 /\ bound.period1 = 2
    /\ dm.prev_candle = NextBar(1)
    /\ NextBar(1) # bars[1] /\ NextBar(1) # NextBar(2) /\ bars[1] # NextBar(2)

\* C10: the raw +DM and -DM of an ADX next call are non-negative, at most
\* one is non-zero, +DM is du only when du > dd and du > 0, -DM is dd only
\* when dd > du and dd > 0, and both are 0 otherwise.
C10_DirectionalMovement ==
    (Running("adx") /\ calls >= 1) =>
        LET du == LastBar.high - dm.prev_candle.high
            dd == dm.prev_candle.low - LastBar.low
        IN  /\ FEq(dm.plus_dm, FromInt(IF du > dd /\ du > 0 THEN du ELSE 0))
            /\ FEq(dm.minus_dm, FromInt(IF dd > du /\ dd > 0 THEN dd ELSE 0))
            /\ FGe(dm.plus_dm, Zero) /\ FGe(dm.minus_dm, Zero)
            /\ FEq(dm.plus_dm, Zero) \/ FEq(dm.minus_dm, Zero)

C10_Witness ==
    /\ Running("adx") /\ calls >= 1
    /\ dm.du = dm.dd /\ FGt(dm.du, Zero)
    /\ dm.plus_dm = Zero /\ dm.minus_dm = Zero

=============================================================================
